---- MODULE Spec2Model ----
(***************************************************************************)
(* Model of the rcrd recording session controller.                         *)
(*                                                                         *)
(* The control thread is main (src/src/main.rs) driving the control loop   *)
(* of src/src/ui.rs (run_app, run_loop); the mic control channel and the   *)
(* diagnostics tailer are those of src/src/ffmpeg.rs.  The transcription   *)
(* worker (crate::transcript) is not among the sources: it is modelled     *)
(* from section 4.4 of the specification.                                  *)
(*                                                                         *)
(* Threads: the control thread (pc), the diagnostics tailer (tpc), the     *)
(* transcription worker (wpc); the encoder is an external process (child)  *)
(* and the session clock (now) advances on its own.                        *)
(***************************************************************************)
EXTENDS Integers, Sequences, FiniteSets, TLC

\* ---------------------------------------------------------------- bounds
MaxKeys == 3         \* key events the user produces in a session
MaxLogKeys == 1      \* key events during a long diagnostic stream
MaxLogLines == 11    \* diagnostic lines the encoder emits
MaxTime == 3         \* session clock range, 0..MaxTime
MaxSegs == 2         \* utterances the recognizer completes
MaxRecOffset == 1    \* recognizer-reported start offsets, 0..MaxRecOffset
MaxHour == 23        \* hours field of the largest time stamps drawn
MaxLockKeys == 2     \* keys pressed while the locks are observed
MaxLockLines == 2    \* diagnostic lines while the locks are observed

\* ------------------------------------------------------ program constants
LogCapacity == 10    \* ffmpeg.rs:105  if logs.len() >= 10
PaneLines == 10      \* ui.rs:274      len.saturating_sub(10)
NoDuration == -1     \* Option<Duration>::None

VARIABLES
    cfg,                  \* command line and environment, fixed for the run
    keysLeft, linesLeft,  \* what the user and the encoder will still produce
    now,                  \* start_time.elapsed()
    pc,                   \* position of the control thread
    terminal,             \* "cooked" | "raw"
    child,                \* encoder: "none" | "running" | "ok" | "fail" | "int" | "killed"
    status,               \* the exit status try_wait handed to the loop, "none" before
    res,                  \* result of run_app: "none" | "ok" | "err"
    exit_code,            \* "none" | "zero" | "nonzero"
    printed_error,
    running, mic_muted, markers,
    transcription_active, transcription_flag, transcription_stop,
    transcription_reset, base_offset_ms, language,
    recent_logs, audio_level, transcript,
    cmd_exists, cmd_file, \* the Mic Control Channel file: its gains, in file order
    marker_file,          \* the marker list written next to the output, <<>> if none
    screen,               \* the Live Transcript pane as last drawn: its time stamps
    locks,                \* the holder of each mutex: "free" | "ctl" | "tailer"
    tpc, tline, nAppended,           \* diagnostics tailer
    wpc, w_base, w_lang, w_rec, w_n, \* transcription worker
    steps,                \* history: shutdown steps in the order they ran
    issued,               \* history: the gains passed to write_mic_volume
    io_failed,            \* history: some gain directive write has failed
    n_toggles,            \* history: mute toggles handled with a mic present
    ui_pushes,            \* history: lines the control loop pushed to recent_logs
    enable_bases,         \* history: elapsed time at the store of each enable
    n_resets              \* history: reset-flag stores by the control loop

envVars    == <<cfg, keysLeft, linesLeft, now>>
mainVars   == <<pc, terminal, status, res, exit_code, printed_error>>
muteVars   == <<mic_muted, cmd_exists, cmd_file, issued, io_failed, n_toggles>>
transVars  == <<transcription_active, transcription_flag, transcription_reset,
                base_offset_ms, enable_bases, n_resets>>
logVars    == <<recent_logs, ui_pushes>>
tailerVars == <<tpc, tline, nAppended, audio_level>>
workerVars == <<wpc, w_base, w_lang, w_rec, w_n, transcript>>

vars == <<cfg, keysLeft, linesLeft, now, pc, terminal, child, status, res,
          exit_code, printed_error, running, mic_muted, markers,
          transcription_active, transcription_flag, transcription_stop,
          transcription_reset, base_offset_ms, language, recent_logs,
          audio_level, transcript, cmd_exists, cmd_file, marker_file, screen,
          locks,
          tpc, tline, nAppended, wpc, w_base, w_lang, w_rec, w_n,
          steps, issued, io_failed, n_toggles, ui_pushes, enable_bases, n_resets>>

\* ------------------------------------------------------------ configuration
\* Command line (main.rs 29-55) and device discovery (main.rs 80-84):
\*   sink      a sink identifier is given or detected
\*   mic       "none" (--no-mic), "missing" (no source given or detected),
\*             "present"
\*   debug     --debug
\*   duration  --duration, NoDuration when omitted
\*   model     a transcription model is configured
\* and what the environment does during the run:
\*   keys      the keys the user presses
\*   exits     the ways the encoder may end on its own
\*   faulty    whether terminal and file operations may fail
\*   horizon   how far the session clock runs while the session is observed
Durations == {NoDuration, 2}
Mics == {"none", "missing", "present"}
Keys == {"q", "ctrl_c", "m", "b", "t", "l", "other"}
ExitStatuses == {"ok", "fail", "int"}

HasMic == cfg.mic = "present"

\* The mutexes of recent_logs, audio_level and language, none of them held.
NoLocks == [logs |-> "free", level |-> "free", language |-> "free"]

\* The tailer holds no line: it waits for the next one.
NoLine == [kind |-> "none", level |-> 0]

\* The outcomes of an operation that can fail.
IoOutcomes == IF cfg.faulty THEN BOOLEAN ELSE {TRUE}

\* ------------------------------------------------------------------- Init
InitWith(cfgs, keys, lines, langs) ==
    /\ cfg \in cfgs
    /\ keysLeft = keys
    /\ linesLeft = lines
    /\ now = 0
    /\ pc = "resolve"
    /\ terminal = "cooked"
    /\ child = "none"
    /\ status = "none"
    /\ res = "none"
    /\ exit_code = "none"
    /\ printed_error = FALSE
    /\ running = TRUE
    /\ mic_muted = FALSE
    /\ markers = <<>>
    /\ transcription_active = FALSE
    /\ transcription_flag = FALSE
    /\ transcription_stop = FALSE
    /\ transcription_reset = FALSE
    /\ base_offset_ms = 0
    /\ language \in langs
    /\ recent_logs = <<>>
    /\ audio_level = 0
    /\ transcript = <<>>
    /\ cmd_exists = FALSE
    /\ cmd_file = <<>>
    /\ marker_file = <<>>
    /\ screen = <<>>
    /\ locks = NoLocks
    /\ tpc = "none"
    /\ tline = NoLine
    /\ nAppended = 0
    /\ wpc = "none"
    /\ w_base = 0
    /\ w_lang = "en"
    /\ w_rec = 0
    /\ w_n = 0
    /\ steps = <<>>
    /\ issued = <<>>
    /\ io_failed = FALSE
    /\ n_toggles = 0
    /\ ui_pushes = 0
    /\ enable_bases = <<>>
    /\ n_resets = 0

\* Whole sessions, from the command line to the exit status, without a
\* transcription model.
SessionConfigs ==
    [sink: BOOLEAN, mic: Mics, debug: BOOLEAN, duration: Durations,
     model: {FALSE}, keys: {Keys}, exits: {ExitStatuses}, faulty: {TRUE},
     horizon: {MaxTime}]

Init == InitWith(SessionConfigs, MaxKeys, 0, {"en"})

\* Transcription sessions: a model is configured, the user toggles
\* transcription and language and quits; the encoder runs until it is killed.
TransConfigs ==
    [sink: {TRUE}, mic: {"none"}, debug: {FALSE}, duration: {NoDuration},
     model: {TRUE}, keys: {{"t", "l", "q"}}, exits: {{}}, faulty: {FALSE},
     horizon: {MaxTime}]

InitTrans == InitWith(TransConfigs, MaxKeys, 0, {"en"})

\* Diagnostic streams longer than the capacity of recent_logs, with the keys
\* whose handlers push lines into the same buffer.
LogConfigs ==
    [sink: {TRUE}, mic: {"none"}, debug: {FALSE}, duration: {NoDuration},
     model: {FALSE}, keys: {{"t", "l", "q"}}, exits: {{"ok"}}, faulty: {FALSE},
     horizon: {0}]

InitLog == InitWith(LogConfigs, MaxLogKeys, MaxLogLines, {"en"})

\* Sessions observed lock by lock: the user toggles the language and presses
\* 't' while the encoder writes diagnostics, then the encoder ends.  Without
\* a model the render takes the lock of recent_logs only (ui.rs 271, 302).
LockConfigs ==
    [sink: {TRUE}, mic: {"none"}, debug: {FALSE}, duration: {NoDuration},
     model: {FALSE}, keys: {{"l", "t"}}, exits: {{"ok"}}, faulty: {FALSE},
     horizon: {0}]

InitLock == InitWith(LockConfigs, MaxLockKeys, MaxLockLines, {"en"})

\* Sessions that only an exit of the encoder ends: a mic is present, the user
\* toggles the mute state and transcription and sets bookmarks and never
\* quits, the encoder ends on its own in any of its ways or keeps running.
LiveConfigs ==
    [sink: {TRUE}, mic: {"present"}, debug: {FALSE}, duration: {NoDuration},
     model: BOOLEAN, keys: {{"m", "b", "t"}}, exits: {ExitStatuses},
     faulty: {FALSE}, horizon: {0}]

InitLive == InitWith(LiveConfigs, MaxKeys, 0, {"en"})

\* Sessions observed while the transcript pane is drawn: transcription was
\* enabled at the start of the session and two utterances have been
\* transcribed, the later one ending now.  The start offsets take the values
\* at which a field of the time stamp wraps, is at its largest, or changes
\* its number of digits.
StampOffsets ==
    {h * 3600000 + m * 60000 + sec * 1000 + ms :
        h \in {0, 1, 9, 10, MaxHour}, m \in {0, 7, 59},
        sec \in {0, 1, 59}, ms \in {0, 1, 99, 999}}

PaneConfigs ==
    [sink: {TRUE}, mic: {"none"}, debug: {FALSE}, duration: {NoDuration},
     model: {TRUE}, keys: {{}}, exits: {{}}, faulty: {FALSE},
     horizon: StampOffsets]

Segment(r) == [start_ms |-> r, base |-> 0, rec |-> r, session |-> 1, enables |-> 1]

InitPane ==
    /\ cfg \in PaneConfigs
    /\ keysLeft = 0
    /\ linesLeft = 0
    /\ now = cfg.horizon
    /\ pc = "draw"
    /\ terminal = "raw"
    /\ child = "running"
    /\ status = "none"
    /\ res = "none"
    /\ exit_code = "none"
    /\ printed_error = FALSE
    /\ running = TRUE
    /\ mic_muted = FALSE
    /\ markers = <<>>
    /\ transcription_active = TRUE
    /\ transcription_flag = TRUE
    /\ transcription_stop = FALSE
    /\ transcription_reset = FALSE
    /\ base_offset_ms = 0
    /\ language = "en"
    /\ recent_logs = <<>>
    /\ audio_level = 0
    /\ \E r \in StampOffsets :
         /\ r <= now
         /\ transcript = <<Segment(r), Segment(now)>>
    /\ cmd_exists = FALSE
    /\ cmd_file = <<>>
    /\ marker_file = <<>>
    /\ screen = <<>>
    /\ locks = NoLocks
    /\ tpc = "read"
    /\ tline = NoLine
    /\ nAppended = 0
    /\ wpc = "Listening"
    /\ w_base = 0
    /\ w_lang = "en"
    /\ w_rec = 0
    /\ w_n = 1
    /\ steps = <<>>
    /\ issued = <<>>
    /\ io_failed = FALSE
    /\ n_toggles = 0
    /\ ui_pushes = 0
    /\ enable_bases = <<0>>
    /\ n_resets = 1

\* ------------------------------------------------------- main: start-up
\* main returns: Err(e) makes the runtime print the error and exit non-zero.
Exit(err) ==
    /\ pc' = "exited"
    /\ exit_code' = IF err THEN "nonzero" ELSE "zero"
    /\ printed_error' = (printed_error \/ err)

\* main.rs 83-84: sink and source identifiers, `?` on a missing one.
ResolveDevices ==
    /\ pc = "resolve"
    /\ IF cfg.sink /\ cfg.mic # "missing"
         THEN pc' = "prepare_mic" /\ UNCHANGED <<exit_code, printed_error>>
         ELSE Exit(TRUE)
    /\ UNCHANGED <<envVars, terminal, child, status, res, running, markers,
                   muteVars, transVars, transcription_stop, language, logVars,
                   tailerVars, workerVars, marker_file, screen, locks, steps>>

\* main.rs 88, ffmpeg.rs 11-25: the channel file starts with "volume 1.0".
PrepareMicControl ==
    /\ pc = "prepare_mic"
    /\ IF HasMic
         THEN \E ok \in IoOutcomes :
                IF ok THEN /\ cmd_exists' = TRUE
                           /\ cmd_file' = <<1>>
                           /\ pc' = "spawn"
                           /\ UNCHANGED <<exit_code, printed_error>>
                      ELSE /\ Exit(TRUE)
                           /\ UNCHANGED <<cmd_exists, cmd_file>>
         ELSE /\ pc' = "spawn"
              /\ UNCHANGED <<cmd_exists, cmd_file, exit_code, printed_error>>
    /\ UNCHANGED <<envVars, terminal, child, status, res, running, markers,
                   mic_muted, issued, io_failed, n_toggles, transVars,
                   transcription_stop, language, logVars, tailerVars,
                   workerVars, marker_file, screen, locks, steps>>

\* Spec section 4.4 (crate::transcript is not among the sources): the worker
\* runs for the session when a model is configured and the TUI is used.
WorkerStart == IF cfg.model /\ ~cfg.debug THEN "Disabled" ELSE "none"

\* main.rs 100-109, ffmpeg.rs 87-124: spawn the encoder; outside debug mode
\* its stderr is piped to the tailer thread.
SpawnFfmpeg ==
    /\ pc = "spawn"
    /\ \E ok \in IoOutcomes :
         IF ok THEN /\ child' = "running"
                    /\ tpc' = IF cfg.debug THEN "none" ELSE "read"
                    /\ wpc' = WorkerStart
                    /\ pc' = IF cfg.debug THEN "debug_wait" ELSE "enter_tui"
                    /\ UNCHANGED <<exit_code, printed_error>>
               ELSE /\ Exit(TRUE)
                    /\ UNCHANGED <<child, tpc, wpc>>
    /\ UNCHANGED <<envVars, terminal, status, res, running, markers, muteVars,
                   transVars, transcription_stop, language, logVars, tline,
                   nAppended, audio_level, w_base, w_lang, w_rec, w_n,
                   transcript, marker_file, screen, locks, steps>>

\* main.rs 111-115: debug mode waits for the encoder and returns Ok.
DebugWait ==
    /\ pc = "debug_wait"
    /\ child # "running"
    /\ Exit(FALSE)
    /\ UNCHANGED <<envVars, terminal, child, status, res, running, markers,
                   muteVars, transVars, transcription_stop, language, logVars,
                   tailerVars, workerVars, marker_file, screen, locks, steps>>

\* main.rs 120-139: enter raw mode and the alternate screen (`?` on failure),
\* then build the RecorderState; start_time is taken here.
EnterTui ==
    /\ pc = "enter_tui"
    /\ \E ok \in IoOutcomes :
         IF ok THEN /\ terminal' = "raw"
                    /\ pc' = "run_app"
                    /\ UNCHANGED <<exit_code, printed_error>>
               ELSE /\ Exit(TRUE)
                    /\ UNCHANGED terminal
    /\ UNCHANGED <<envVars, child, status, res, running, markers, muteVars,
                   transVars, transcription_stop, language, logVars,
                   tailerVars, workerVars, marker_file, screen, locks, steps>>

\* ------------------------------------------------------ ui.rs: run_app
InSession == pc \in {"run_app", "draw", "poll", "t_base", "t_reset",
                     "try_wait", "duration", "test", "loop_end"}

\* ui.rs 51-55: run_app enters the terminal mode itself; `?` returns the
\* error to main before run_loop and before the restore of lines 60-66.
RunAppEnter ==
    /\ pc = "run_app"
    /\ \E ok \in IoOutcomes :
         IF ok THEN /\ terminal' = "raw"
                    /\ pc' = "draw"
                    /\ res' = res
               ELSE /\ res' = "err"
                    /\ pc' = "restore"
                    /\ UNCHANGED terminal
    /\ UNCHANGED <<envVars, child, status, exit_code, printed_error, running,
                   markers, muteVars, transVars, transcription_stop, language,
                   logVars, tailerVars, workerVars, marker_file, screen, locks, steps>>

\* run_loop returned Err through `?`: line 162 is skipped.
LoopError ==
    /\ res' = "err"
    /\ pc' = "ui_restore"

\* -------------------------------------------- ui.rs: the transcript pane
\* The minutes not reduced modulo 60.
Minutes_NoMod(ms) == ms \div 60000

\* ui.rs 278-281: the fields of a time stamp.
Hours(ms) == ms \div 3600000
Minutes(ms) == (ms \div 60000) % 60
Seconds(ms) == (ms \div 1000) % 60
Millis(ms) == ms % 1000

\* The character of a decimal digit.
DigitChar(d) == <<"0", "1", "2", "3", "4", "5", "6", "7", "8", "9">>[d + 1]

\* The decimal digits of a natural number, most significant first.
RECURSIVE Digits(_)
Digits(n) == IF n < 10 THEN <<DigitChar(n)>>
                       ELSE Append(Digits(n \div 10), DigitChar(n % 10))

\* {:0w}: the digits, padded with zeros on the left to at least w characters.
Pad(n, w) ==
    IF Len(Digits(n)) >= w THEN Digits(n)
    ELSE [i \in 1..(w - Len(Digits(n))) |-> "0"] \o Digits(n)

\* ui.rs 282: format!("{:02}:{:02}:{:02}.{:03} ..", h, m, s, ms), as the
\* sequence of its characters.
FormatStamp(ms) ==
    Pad(Hours(ms), 2) \o <<":">> \o Pad(Minutes(ms), 2) \o <<":">>
        \o Pad(Seconds(ms), 2) \o <<".">> \o Pad(Millis(ms), 3)

\* ui.rs 273-276: the segments from len.saturating_sub(PaneLines) on.
LastSegs(t) ==
    SubSeq(t, (IF Len(t) > PaneLines THEN Len(t) - PaneLines ELSE 0) + 1, Len(t))

\* ui.rs 271-287: the pane is drawn while transcription is active with a
\* model configured, one line per segment shown.
Pane ==
    IF transcription_active /\ cfg.model
      THEN [i \in DOMAIN LastSegs(transcript) |->
                FormatStamp(LastSegs(transcript)[i].start_ms)]
      ELSE <<>>

\* ui.rs 77: terminal.draw(|f| ui(f, state))?
Draw ==
    /\ pc = "draw"
    /\ \E ok \in IoOutcomes :
         IF ok THEN pc' = "poll" /\ res' = res /\ screen' = Pane
               ELSE LoopError /\ UNCHANGED screen
    /\ UNCHANGED <<envVars, terminal, child, status, exit_code, printed_error,
                   running, markers, muteVars, transVars, transcription_stop,
                   language, logVars, tailerVars, workerVars, marker_file,
                   locks, steps>>

\* ui.rs 79-80: the poll timed out, or the event read is not a key event.
PollNone ==
    /\ pc = "poll"
    /\ pc' = "try_wait"
    /\ UNCHANGED <<envVars, terminal, child, status, res, exit_code,
                   printed_error, running, markers, muteVars, transVars,
                   transcription_stop, language, logVars, tailerVars,
                   workerVars, marker_file, screen, locks, steps>>

\* ui.rs 79-80: event::poll(..)? or event::read()? failed.
PollFail ==
    /\ pc = "poll"
    /\ cfg.faulty
    /\ LoopError
    /\ UNCHANGED <<envVars, terminal, child, status, exit_code, printed_error,
                   running, markers, muteVars, transVars, transcription_stop,
                   language, logVars, tailerVars, workerVars, marker_file, screen, locks,
                   steps>>

\* A key event is read: one event per tick.
KeyEvent(k) ==
    /\ pc = "poll"
    /\ keysLeft > 0
    /\ k \in cfg.keys
    /\ keysLeft' = keysLeft - 1
    /\ UNCHANGED <<cfg, linesLeft, now>>

\* A store that flips the flag instead of setting it.
StopValue_Flip == ~transcription_stop

\* ui.rs 84, 88 and 162: the value stored into transcription_stop.
StopValue == TRUE

\* The running flag left as it is.
QuitRunning_Keep == running

\* ui.rs 83 and 87: the value assigned to state.running.
QuitRunning == FALSE

\* ui.rs 82-85: 'q' or Esc.
KeyQuit ==
    /\ KeyEvent("q")
    /\ running' = QuitRunning
    /\ transcription_stop' = StopValue
    /\ steps' = Append(steps, "stop")
    /\ pc' = "try_wait"
    /\ UNCHANGED <<terminal, child, status, res, exit_code, printed_error,
                   markers, muteVars, transVars, language, logVars,
                   tailerVars, workerVars, marker_file, screen, locks>>

\* ui.rs 86-89: Ctrl+C.
KeyCtrlC ==
    /\ KeyEvent("ctrl_c")
    /\ running' = QuitRunning
    /\ transcription_stop' = StopValue
    /\ steps' = Append(steps, "stop")
    /\ pc' = "try_wait"
    /\ UNCHANGED <<terminal, child, status, res, exit_code, printed_error,
                   markers, muteVars, transVars, language, logVars,
                   tailerVars, workerVars, marker_file, screen, locks>>

\* The two gains exchanged.
GainFor_Swapped(muted) == IF muted THEN 1 ELSE 0

\* ui.rs 93: let vol = if state.mic_muted { 0.0 } else { 1.0 };
GainFor(muted) == IF muted THEN 0 ELSE 1

\* ffmpeg.rs 27-34: append one directive to the channel file; an open or
\* write error leaves the file as it was.
write_mic_volume(file, volume, ok) == IF ok THEN Append(file, volume) ELSE file

\* ui.rs 90-96: 'm'; the result of write_mic_volume is discarded (`let _`).
KeyMute ==
    /\ KeyEvent("m")
    /\ IF HasMic
         THEN /\ mic_muted' = ~mic_muted
              /\ issued' = Append(issued, GainFor(mic_muted'))
              /\ \E ok \in IoOutcomes :
                   /\ cmd_file' = write_mic_volume(cmd_file, GainFor(mic_muted'), ok)
                   /\ io_failed' = (io_failed \/ ~ok)
              /\ n_toggles' = n_toggles + 1
              /\ UNCHANGED cmd_exists
         ELSE UNCHANGED muteVars
    /\ pc' = "try_wait"
    /\ UNCHANGED <<terminal, child, status, res, exit_code, printed_error,
                   running, markers, transVars, transcription_stop, language,
                   logVars, tailerVars, workerVars, marker_file, screen, locks, steps>>

\* The new marker put in front of the list.
PushMarker_Front(ms, t) ==
    <<[timestamp |-> t, note |-> Len(ms) + 1]>> \o ms

\* ui.rs 99-102: state.markers.push(Marker { timestamp, note: "Marker #n" }).
PushMarker(ms, t) ==
    Append(ms, [timestamp |-> t, note |-> Len(ms) + 1])

\* ui.rs 97-103: 'b'; the timestamp is start_time.elapsed().
KeyBookmark ==
    /\ KeyEvent("b")
    /\ markers' = PushMarker(markers, now)
    /\ pc' = "try_wait"
    /\ UNCHANGED <<terminal, child, status, res, exit_code, printed_error,
                   running, muteVars, transVars, transcription_stop, language,
                   logVars, tailerVars, workerVars, marker_file, screen, locks, steps>>

\* The elapsed time in a coarser unit than the millisecond.
ElapsedMs_Coarse == now \div 2

\* The time left to the horizon instead of the time elapsed.
ElapsedMs_Remaining == cfg.horizon - now

\* ui.rs 111-116: start_time.elapsed().as_millis().try_into().unwrap_or(0).
\* The u128 -> i64 conversion fails only from 2^63 ms on, far beyond the
\* clock range of the model, so the fallback 0 is never taken here.
ElapsedMs == now

\* The store of the base offset left out.
TAfterFlag_NoBase == "t_reset"

\* ui.rs 110-121: after the enabled flag, the handler stores the base offset
\* (t_base), then the reset flag (t_reset).
TAfterFlag == "t_base"

\* The toggle always enables.
FlagAfterToggle_Set(active) == TRUE

\* ui.rs 106: state.transcription_active = !state.transcription_active.
FlagAfterToggle(active) == ~active

\* The negated value stored into the shared flag.
StoredFlag_Negated(active) == ~active

\* ui.rs 107-109: transcription_flag.store(state.transcription_active).
StoredFlag(active) == active

\* ui.rs 104-125: 't'.  With a model: flip transcription_active and store it
\* into the shared enabled flag; the two further stores of an enable are the
\* steps TStoreBase and TStoreReset.  Without: push a line to recent_logs.
KeyT ==
    /\ KeyEvent("t")
    /\ IF cfg.model
         THEN /\ transcription_active' = FlagAfterToggle(transcription_active)
              /\ transcription_flag' = StoredFlag(transcription_active')
              /\ pc' = IF transcription_active' THEN TAfterFlag ELSE "try_wait"
              /\ UNCHANGED logVars
         ELSE /\ recent_logs' = Append(recent_logs, <<"no_model", 0>>)
              /\ ui_pushes' = ui_pushes + 1
              /\ pc' = "try_wait"
              /\ UNCHANGED <<transcription_active, transcription_flag>>
    /\ UNCHANGED <<terminal, child, status, res, exit_code, printed_error,
                   running, markers, muteVars, transcription_reset,
                   base_offset_ms, enable_bases, n_resets, transcription_stop,
                   language, tailerVars, workerVars, marker_file, screen, locks, steps>>

\* ui.rs 111-119: base_offset_ms.store(elapsed_ms).
TStoreBase ==
    /\ pc = "t_base"
    /\ base_offset_ms' = ElapsedMs
    /\ enable_bases' = Append(enable_bases, now)
    /\ pc' = "t_reset"
    /\ UNCHANGED <<envVars, terminal, child, status, res, exit_code,
                   printed_error, running, markers, muteVars,
                   transcription_active, transcription_flag,
                   transcription_reset, n_resets, transcription_stop,
                   language, logVars, tailerVars, workerVars, marker_file, screen, locks,
                   steps>>

\* ui.rs 120: transcription_reset.store(true).
TStoreReset ==
    /\ pc = "t_reset"
    /\ transcription_reset' = TRUE
    /\ n_resets' = n_resets + 1
    /\ pc' = "try_wait"
    /\ UNCHANGED <<envVars, terminal, child, status, res, exit_code,
                   printed_error, running, markers, muteVars,
                   transcription_active, transcription_flag, base_offset_ms,
                   enable_bases, transcription_stop, language, logVars,
                   tailerVars, workerVars, marker_file, screen, locks, steps>>

\* ui.rs 128-132: "en" becomes "fr", anything else becomes "en".
NextLanguage(lang) == IF lang = "en" THEN "fr" ELSE "en"

\* ui.rs 126-137: 'l'; the new tag is also pushed to recent_logs.
KeyLang ==
    /\ KeyEvent("l")
    /\ language' = NextLanguage(language)
    /\ recent_logs' = Append(recent_logs, <<language', 0>>)
    /\ ui_pushes' = ui_pushes + 1
    /\ pc' = "try_wait"
    /\ UNCHANGED <<terminal, child, status, res, exit_code, printed_error,
                   running, markers, muteVars, transVars, transcription_stop,
                   tailerVars, workerVars, marker_file, screen, locks, steps>>

\* ui.rs 138: any other key.
KeyOther ==
    /\ KeyEvent("other")
    /\ pc' = "try_wait"
    /\ UNCHANGED <<terminal, child, status, res, exit_code, printed_error,
                   running, markers, muteVars, transVars, transcription_stop,
                   language, logVars, tailerVars, workerVars, marker_file, screen, locks,
                   steps>>

\* Ok(None) sets the running flag instead of leaving it.
RunningAfterWait_Set(exited, r) == ~exited

\* The exit of the encoder not acted on.
RunningAfterWait_Ignore(exited, r) == r

\* ui.rs 145-148: Ok(Some(_)) clears the running flag, Ok(None) leaves it.
RunningAfterWait(exited, r) == IF exited THEN FALSE ELSE r

\* ui.rs 143-150: child.try_wait(); the exit status is bound and not used.
TryWait ==
    /\ pc = "try_wait"
    /\ \/ /\ running' = RunningAfterWait(child # "running", running)
          /\ status' = IF child # "running" THEN child ELSE status
          /\ pc' = "duration"
          /\ res' = res
       \/ /\ cfg.faulty
          /\ LoopError
          /\ UNCHANGED <<running, status>>
    /\ UNCHANGED <<envVars, terminal, child, exit_code, printed_error, markers,
                   muteVars, transVars, transcription_stop, language, logVars,
                   tailerVars, workerVars, marker_file, screen, locks, steps>>

\* The comparison strict: > instead of >=.
Expired_Strict(elapsed, d) == d # NoDuration /\ elapsed > d

\* ui.rs 152-153: if let Some(duration) .. if start_time.elapsed() >= duration.
Expired(elapsed, d) == d # NoDuration /\ elapsed >= d

\* ui.rs 152-156.
CheckDuration ==
    /\ pc = "duration"
    /\ running' = IF Expired(now, cfg.duration) THEN FALSE ELSE running
    /\ pc' = "test"
    /\ UNCHANGED <<envVars, terminal, child, status, res, exit_code,
                   printed_error, markers, muteVars, transVars,
                   transcription_stop, language, logVars, tailerVars,
                   workerVars, marker_file, screen, locks, steps>>

\* The loop goes round whatever the flag.
AfterTest_Always(r) == "draw"

\* ui.rs 158-160: if !state.running { break; }
AfterTest(r) == IF r THEN "draw" ELSE "loop_end"

\* ui.rs 158-160.
TestRunning ==
    /\ pc = "test"
    /\ pc' = AfterTest(running)
    /\ UNCHANGED <<envVars, terminal, child, status, res, exit_code,
                   printed_error, running, markers, muteVars, transVars,
                   transcription_stop, language, logVars, tailerVars,
                   workerVars, marker_file, screen, locks, steps>>

\* ui.rs 162-163: after the loop, store the stop flag and return Ok(()).
LoopEnd ==
    /\ pc = "loop_end"
    /\ transcription_stop' = StopValue
    /\ steps' = Append(steps, "stop")
    /\ res' = "ok"
    /\ pc' = "ui_restore"
    /\ UNCHANGED <<envVars, terminal, child, status, exit_code, printed_error,
                   running, markers, muteVars, transVars, language, logVars,
                   tailerVars, workerVars, marker_file, screen, locks>>

\* ui.rs 59-68: restore the terminal, ignoring failures, and hand the result
\* (with the state on success) to main.
UiRestore ==
    /\ pc = "ui_restore"
    /\ \E ok \in IoOutcomes : terminal' = IF ok THEN "cooked" ELSE terminal
    /\ steps' = Append(steps, "restore")
    /\ pc' = "restore"
    /\ UNCHANGED <<envVars, child, status, res, exit_code, printed_error,
                   running, markers, muteVars, transVars, transcription_stop,
                   language, logVars, tailerVars, workerVars, marker_file, screen, locks>>

\* ------------------------------------------------------ main: shutdown
\* The channel file removed before the encoder is terminated.
AfterStep_RemoveFirst(p) ==
    CASE p = "restore"      -> "cleanup_cmd"
      [] p = "cleanup_cmd"  -> "ensure_dead"
      [] p = "ensure_dead"  -> "save_markers"
      [] p = "save_markers" -> "report"
      [] p = "report"       -> "exited"

\* main.rs 143-183: the order of the statements after run_app returns.
AfterStep(p) ==
    CASE p = "restore"      -> "ensure_dead"
      [] p = "ensure_dead"  -> "cleanup_cmd"
      [] p = "cleanup_cmd"  -> "save_markers"
      [] p = "save_markers" -> "report"
      [] p = "report"       -> "exited"

\* main.rs 143-150: disable_raw_mode()? and the rest; `?` returns the error.
Restore ==
    /\ pc = "restore"
    /\ \E ok \in IoOutcomes :
         IF ok THEN /\ terminal' = "cooked"
                    /\ steps' = Append(steps, "restore")
                    /\ pc' = AfterStep("restore")
                    /\ UNCHANGED <<exit_code, printed_error>>
               ELSE /\ Exit(TRUE)
                    /\ UNCHANGED <<terminal, steps>>
    /\ UNCHANGED <<envVars, child, status, res, running, markers, muteVars,
                   transVars, transcription_stop, language, logVars,
                   tailerVars, workerVars, marker_file, screen, locks>>

\* main.rs 152-158: kill and wait unless try_wait reports an exit.
EnsureDead ==
    /\ pc = "ensure_dead"
    /\ child' = IF child = "running" THEN "killed" ELSE child
    /\ steps' = Append(steps, "ensure_dead")
    /\ pc' = AfterStep("ensure_dead")
    /\ UNCHANGED <<envVars, terminal, status, res, exit_code, printed_error,
                   running, markers, muteVars, transVars, transcription_stop,
                   language, logVars, tailerVars, workerVars, marker_file, screen, locks>>

\* main.rs 160-163: the path comes from the state run_app returned, so the
\* file is removed only after Ok; a failed removal is ignored.
CleanupCmd ==
    /\ pc = "cleanup_cmd"
    /\ IF res = "ok" /\ HasMic
         THEN /\ \E ok \in IoOutcomes : cmd_exists' = IF ok THEN FALSE ELSE cmd_exists
              /\ steps' = Append(steps, "remove")
         ELSE UNCHANGED <<cmd_exists, steps>>
    /\ pc' = AfterStep("cleanup_cmd")
    /\ UNCHANGED <<envVars, terminal, child, status, res, exit_code,
                   printed_error, running, markers, mic_muted, cmd_file,
                   issued, io_failed, n_toggles, transVars, transcription_stop,
                   language, logVars, tailerVars, workerVars, marker_file, screen, locks>>

\* main.rs 165-174: after Ok and with at least one marker, create the file
\* and write the list; a failed File::create writes nothing.
SaveMarkers ==
    /\ pc = "save_markers"
    /\ IF res = "ok" /\ markers # <<>>
         THEN /\ \E ok \in IoOutcomes : marker_file' = IF ok THEN markers ELSE marker_file
              /\ steps' = Append(steps, "persist")
         ELSE UNCHANGED <<marker_file, steps>>
    /\ pc' = AfterStep("save_markers")
    /\ UNCHANGED <<envVars, terminal, child, status, res, exit_code,
                   printed_error, running, markers, muteVars, transVars,
                   transcription_stop, language, logVars, tailerVars,
                   workerVars, screen, locks>>

\* main.rs 176-182: print the error or the success line, then return Ok(()).
Report ==
    /\ pc = "report"
    /\ printed_error' = (res = "err")
    /\ exit_code' = "zero"
    /\ steps' = Append(steps, "report")
    /\ pc' = AfterStep("report")
    /\ UNCHANGED <<envVars, terminal, child, status, res, running, markers,
                   muteVars, transVars, transcription_stop, language, logVars,
                   tailerVars, workerVars, marker_file, screen, locks>>

\* ------------------------------------------------------------ environment
\* The session clock (Instant) only moves forward.
ClockTick ==
    /\ InSession
    /\ now < cfg.horizon
    /\ now' = now + 1
    /\ UNCHANGED <<cfg, keysLeft, linesLeft, pc, terminal, child, status, res,
                   exit_code, printed_error, running, markers, muteVars,
                   transVars, transcription_stop, language, logVars,
                   tailerVars, workerVars, marker_file, screen, locks, steps>>

\* The encoder exits on its own: cleanly, with a failure status, or on its
\* own receipt of an interrupt signal.
ChildExit ==
    /\ child = "running"
    /\ \E s \in cfg.exits : child' = s
    /\ UNCHANGED <<envVars, pc, terminal, status, res, exit_code,
                   printed_error, running, markers, muteVars, transVars,
                   transcription_stop, language, logVars, tailerVars,
                   workerVars, marker_file, screen, locks, steps>>

\* ------------------------------------------------- diagnostics tailer
Levels == {1, 2}

\* A line of the stream: undecodable ("bad"), not matching the level pattern
\* ("plain"), matching it with a capture that parses as f32 ("level"), or
\* matching it with a capture that does not ("garbled": the pattern
\* [-0-9.]+ captures "-" from "RMS level dB: -inf").  The level of a matching
\* line is the number its capture stands for.
LineKinds == {"bad", "plain", "level", "garbled"}

\* The eviction test off by one: > instead of >=.
PushLog_OffByOne(logs, l) ==
    IF Len(logs) > LogCapacity THEN Append(Tail(logs), l) ELSE Append(logs, l)

\* ffmpeg.rs 104-109: drop the oldest line at capacity, then push.
PushLog(logs, l) ==
    IF Len(logs) >= LogCapacity THEN Append(Tail(logs), l) ELSE Append(logs, l)

\* The push waits for room in the buffer.
CanPush_Room(logs) == Len(logs) < LogCapacity

\* ffmpeg.rs 104-108: the push never waits for a reader to make room: at
\* capacity the oldest line is evicted.
CanPush(logs) == TRUE

\* ffmpeg.rs 102-109: read one line; a line that fails to decode is skipped,
\* any other is pushed to recent_logs under its lock.
TailerRead ==
    /\ tpc = "read"
    /\ pc # "exited"
    /\ linesLeft > 0
    /\ CanPush(recent_logs)
    /\ linesLeft' = linesLeft - 1
    /\ \E kind \in LineKinds, v \in Levels :
         IF kind = "bad"
           THEN UNCHANGED <<recent_logs, nAppended, tline, tpc>>
           ELSE /\ nAppended' = nAppended + 1
                /\ recent_logs' = PushLog(recent_logs, <<"line", nAppended'>>)
                /\ tline' = [kind |-> kind,
                             level |-> IF kind = "plain" THEN 0 ELSE v]
                /\ tpc' = "level"
    /\ UNCHANGED <<cfg, keysLeft, now, pc, terminal, child, status, res,
                   exit_code, printed_error, running, markers, muteVars,
                   transVars, transcription_stop, language, ui_pushes,
                   audio_level, workerVars, marker_file, screen, locks, steps>>

\* ffmpeg.rs 111-119: on a match that parses, overwrite the level.
TailerLevel ==
    /\ tpc = "level"
    /\ pc # "exited"
    /\ audio_level' = IF tline.kind = "level" THEN tline.level ELSE audio_level
    /\ tline' = NoLine
    /\ tpc' = "read"
    /\ UNCHANGED <<envVars, pc, terminal, child, status, res, exit_code,
                   printed_error, running, markers, muteVars, transVars,
                   transcription_stop, language, logVars, nAppended,
                   workerVars, marker_file, screen, locks, steps>>

\* ffmpeg.rs 102: reader.lines() ends when the encoder has closed its stderr
\* and every line written to it has been read.
TailerEof ==
    /\ tpc = "read"
    /\ pc # "exited"
    /\ child \notin {"none", "running"}
    /\ linesLeft = 0
    /\ tpc' = "done"
    /\ UNCHANGED <<envVars, pc, terminal, child, status, res, exit_code,
                   printed_error, running, markers, muteVars, transVars,
                   transcription_stop, language, logVars, tline, nAppended,
                   audio_level, workerVars, marker_file, screen, locks, steps>>

\* ------------------------------------------- transcription worker
\* Modelled from section 4.4 and section 5 of the specification: states
\* Disabled, Armed, Listening; the worker blocks in the recognizer's
\* processing call (Recognizing) between its checks of the flags and the
\* append of the completed utterance.

\* Observing reset: the flag is consumed and cleared.
WorkerArm ==
    /\ wpc \in {"Disabled", "Listening"}
    /\ pc # "exited"
    /\ ~transcription_stop
    /\ transcription_flag
    /\ transcription_reset
    /\ transcription_reset' = FALSE
    /\ w_n' = n_resets
    /\ wpc' = "Armed"
    /\ UNCHANGED <<envVars, pc, terminal, child, status, res, exit_code,
                   printed_error, running, markers, muteVars,
                   transcription_active, transcription_flag, base_offset_ms,
                   enable_bases, n_resets, transcription_stop, language,
                   logVars, tailerVars, w_base, w_lang, w_rec, transcript,
                   marker_file, screen, locks, steps>>

\* After a reset: re-read the language and the base offset, (re)initialize
\* the recognizer.
WorkerInit ==
    /\ wpc = "Armed"
    /\ pc # "exited"
    /\ w_lang' = language
    /\ w_base' = base_offset_ms
    /\ wpc' = "Listening"
    /\ UNCHANGED <<envVars, pc, terminal, child, status, res, exit_code,
                   printed_error, running, markers, muteVars, transVars,
                   transcription_stop, language, logVars, tailerVars, w_rec,
                   w_n, transcript, marker_file, screen, locks, steps>>

\* Listening: audio is forwarded to the recognizer, which reports the start
\* offset of the utterance relative to its own listening window.
WorkerRecognize ==
    /\ wpc = "Listening"
    /\ pc # "exited"
    /\ ~transcription_stop
    /\ transcription_flag
    /\ ~transcription_reset
    /\ Len(transcript) < MaxSegs
    /\ \E r \in 0..MaxRecOffset : w_rec' = r
    /\ wpc' = "Recognizing"
    /\ UNCHANGED <<envVars, pc, terminal, child, status, res, exit_code,
                   printed_error, running, markers, muteVars, transVars,
                   transcription_stop, language, logVars, tailerVars, w_base,
                   w_lang, w_n, transcript, marker_file, screen, locks, steps>>

\* start_ms = base_offset_ms + recognizer_start_ms, appended in arrival
\* order.  The other fields are history: the base offset read and the
\* offset reported, the reset store that began the recognition session, and
\* the enables completed at the append.
WorkerAppend ==
    /\ wpc = "Recognizing"
    /\ pc # "exited"
    /\ transcript' = Append(transcript, [start_ms |-> w_base + w_rec,
                                         base |-> w_base,
                                         rec |-> w_rec,
                                         session |-> w_n,
                                         enables |-> n_resets])
    /\ w_rec' = 0
    /\ wpc' = "Listening"
    /\ UNCHANGED <<envVars, pc, terminal, child, status, res, exit_code,
                   printed_error, running, markers, muteVars, transVars,
                   transcription_stop, language, logVars, tailerVars, w_base,
                   w_lang, w_n, marker_file, screen, locks, steps>>

\* The enabled flag was cleared: stop appending; the recognizer state is
\* kept until the next reset.
WorkerDisable ==
    /\ wpc = "Listening"
    /\ pc # "exited"
    /\ ~transcription_stop
    /\ ~transcription_flag
    /\ wpc' = "Disabled"
    /\ UNCHANGED <<envVars, pc, terminal, child, status, res, exit_code,
                   printed_error, running, markers, muteVars, transVars,
                   transcription_stop, language, logVars, tailerVars, w_base,
                   w_lang, w_rec, w_n, transcript, marker_file, screen, locks, steps>>

\* Terminal: the stop flag is observed; the worker exits.
WorkerStop ==
    /\ wpc \in {"Disabled", "Armed", "Listening"}
    /\ pc # "exited"
    /\ transcription_stop
    /\ wpc' = "Terminal"
    /\ UNCHANGED <<envVars, pc, terminal, child, status, res, exit_code,
                   printed_error, running, markers, muteVars, transVars,
                   transcription_stop, language, logVars, tailerVars, w_base,
                   w_lang, w_rec, w_n, transcript, marker_file, screen, locks, steps>>

\* ------------------------------------------------- the locks, step by step
\* The same statements of run_loop, ui and the tailer thread as above, with
\* each lock() and each end of a guard's scope as a step of its own.  A
\* thread at lock() waits while another thread holds the mutex.

\* ui.rs 302-305: the render takes the lock of recent_logs to copy the lines.
DrawLockLogs ==
    /\ pc = "draw"
    /\ locks.logs = "free"
    /\ locks' = [locks EXCEPT !.logs = "ctl"]
    /\ pc' = "draw_logs"
    /\ UNCHANGED <<envVars, terminal, child, status, res, exit_code,
                   printed_error, running, markers, muteVars, transVars,
                   transcription_stop, language, logVars, tailerVars,
                   workerVars, marker_file, screen, steps>>

\* ui.rs 305-308: the guard is dropped at the end of the `if let`; the frame
\* is drawn.
DrawUnlockLogs ==
    /\ pc = "draw_logs"
    /\ locks' = [locks EXCEPT !.logs = "free"]
    /\ screen' = Pane
    /\ pc' = "poll"
    /\ UNCHANGED <<envVars, terminal, child, status, res, exit_code,
                   printed_error, running, markers, muteVars, transVars,
                   transcription_stop, language, logVars, tailerVars,
                   workerVars, marker_file, steps>>

\* ui.rs 104-105, 122: 't' without a model goes to recent_logs.lock().
NoModelKey ==
    /\ KeyEvent("t")
    /\ ~cfg.model
    /\ pc' = "t_want_logs"
    /\ UNCHANGED <<terminal, child, status, res, exit_code, printed_error,
                   running, markers, muteVars, transVars, transcription_stop,
                   language, logVars, tailerVars, workerVars, marker_file,
                   screen, locks, steps>>

\* ui.rs 122: recent_logs.lock().
NoModelLockLogs ==
    /\ pc = "t_want_logs"
    /\ locks.logs = "free"
    /\ locks' = [locks EXCEPT !.logs = "ctl"]
    /\ pc' = "t_logs"
    /\ UNCHANGED <<envVars, terminal, child, status, res, exit_code,
                   printed_error, running, markers, muteVars, transVars,
                   transcription_stop, language, logVars, tailerVars,
                   workerVars, marker_file, screen, steps>>

\* ui.rs 123-124: push the line; the guard is dropped.
NoModelPushUnlock ==
    /\ pc = "t_logs"
    /\ recent_logs' = Append(recent_logs, <<"no_model", 0>>)
    /\ ui_pushes' = ui_pushes + 1
    /\ locks' = [locks EXCEPT !.logs = "free"]
    /\ pc' = "try_wait"
    /\ UNCHANGED <<envVars, terminal, child, status, res, exit_code,
                   printed_error, running, markers, muteVars, transVars,
                   transcription_stop, language, tailerVars, workerVars,
                   marker_file, screen, steps>>

\* ui.rs 126-127: 'l' goes to language.lock().
LangKey ==
    /\ KeyEvent("l")
    /\ pc' = "l_want_lang"
    /\ UNCHANGED <<terminal, child, status, res, exit_code, printed_error,
                   running, markers, muteVars, transVars, transcription_stop,
                   language, logVars, tailerVars, workerVars, marker_file,
                   screen, locks, steps>>

\* ui.rs 127-132: take the lock of language and cycle the tag.
LangLock ==
    /\ pc = "l_want_lang"
    /\ locks.language = "free"
    /\ locks' = [locks EXCEPT !.language = "ctl"]
    /\ language' = NextLanguage(language)
    /\ pc' = "l_want_logs"
    /\ UNCHANGED <<envVars, terminal, child, status, res, exit_code,
                   printed_error, running, markers, muteVars, transVars,
                   transcription_stop, logVars, tailerVars, workerVars,
                   marker_file, screen, steps>>

\* ui.rs 133: holding the lock of language, take the lock of recent_logs.
LangLockLogs ==
    /\ pc = "l_want_logs"
    /\ locks.logs = "free"
    /\ locks' = [locks EXCEPT !.logs = "ctl"]
    /\ pc' = "l_logs"
    /\ UNCHANGED <<envVars, terminal, child, status, res, exit_code,
                   printed_error, running, markers, muteVars, transVars,
                   transcription_stop, language, logVars, tailerVars,
                   workerVars, marker_file, screen, steps>>

\* ui.rs 134-136: push the line; both guards are dropped.
LangPushUnlock ==
    /\ pc = "l_logs"
    /\ recent_logs' = Append(recent_logs, <<language, 0>>)
    /\ ui_pushes' = ui_pushes + 1
    /\ locks' = [locks EXCEPT !.logs = "free", !.language = "free"]
    /\ pc' = "try_wait"
    /\ UNCHANGED <<envVars, terminal, child, status, res, exit_code,
                   printed_error, running, markers, muteVars, transVars,
                   transcription_stop, language, tailerVars, workerVars,
                   marker_file, screen, steps>>

\* ffmpeg.rs 102-104: the next line of the stream; one that fails to decode
\* is skipped, any other goes to recent_logs.lock().
TailerNextLine ==
    /\ tpc = "read"
    /\ pc # "exited"
    /\ linesLeft > 0
    /\ linesLeft' = linesLeft - 1
    /\ \E kind \in LineKinds, v \in Levels :
         IF kind = "bad"
           THEN UNCHANGED <<tline, tpc>>
           ELSE /\ tline' = [kind |-> kind,
                             level |-> IF kind = "plain" THEN 0 ELSE v]
                /\ tpc' = "want_logs"
    /\ UNCHANGED <<cfg, keysLeft, now, pc, terminal, child, status, res,
                   exit_code, printed_error, running, markers, muteVars,
                   transVars, transcription_stop, language, logVars,
                   nAppended, audio_level, workerVars, marker_file, screen,
                   locks, steps>>

\* ffmpeg.rs 104: recent_logs.lock().
TailerLockLogs ==
    /\ tpc = "want_logs"
    /\ pc # "exited"
    /\ locks.logs = "free"
    /\ locks' = [locks EXCEPT !.logs = "tailer"]
    /\ tpc' = "push"
    /\ UNCHANGED <<envVars, pc, terminal, child, status, res, exit_code,
                   printed_error, running, markers, muteVars, transVars,
                   transcription_stop, language, logVars, tline, nAppended,
                   audio_level, workerVars, marker_file, screen, steps>>

\* The guard of recent_logs kept until the end of the loop body.
LogsAfterPush_Kept == "tailer"

\* ffmpeg.rs 109: the guard of recent_logs is dropped at the end of the
\* `if let`, before the line is tested against the pattern.
LogsAfterPush == "free"

\* ffmpeg.rs 105-116: push the line and drop the guard; only a line whose
\* capture parses goes on to audio_level.lock().
TailerPushUnlock ==
    /\ tpc = "push"
    /\ pc # "exited"
    /\ nAppended' = nAppended + 1
    /\ recent_logs' = PushLog(recent_logs, <<"line", nAppended'>>)
    /\ locks' = [locks EXCEPT !.logs = LogsAfterPush]
    /\ tpc' = IF tline.kind = "level" THEN "want_level" ELSE "read"
    /\ tline' = IF tline.kind = "level" THEN tline ELSE NoLine
    /\ UNCHANGED <<envVars, pc, terminal, child, status, res, exit_code,
                   printed_error, running, markers, muteVars, transVars,
                   transcription_stop, language, ui_pushes, audio_level,
                   workerVars, marker_file, screen, steps>>

\* ffmpeg.rs 114: audio_level.lock().
TailerLockLevel ==
    /\ tpc = "want_level"
    /\ pc # "exited"
    /\ locks.level = "free"
    /\ locks' = [locks EXCEPT !.level = "tailer"]
    /\ tpc' = "store"
    /\ UNCHANGED <<envVars, pc, terminal, child, status, res, exit_code,
                   printed_error, running, markers, muteVars, transVars,
                   transcription_stop, language, logVars, tline, nAppended,
                   audio_level, workerVars, marker_file, screen, steps>>

\* ffmpeg.rs 115-116: overwrite the level; the guard is dropped.
TailerStoreUnlock ==
    /\ tpc = "store"
    /\ pc # "exited"
    /\ audio_level' = tline.level
    /\ tline' = NoLine
    /\ locks' = [locks EXCEPT !.level = "free"]
    /\ tpc' = "read"
    /\ UNCHANGED <<envVars, pc, terminal, child, status, res, exit_code,
                   printed_error, running, markers, muteVars, transVars,
                   transcription_stop, language, logVars, nAppended,
                   workerVars, marker_file, screen, steps>>

\* ---------------------------------------------------------- specifications
\* Whole sessions: with no model configured and an encoder that writes no
\* diagnostics, the steps left out are never enabled.
Next ==
    \/ ResolveDevices
    \/ PrepareMicControl
    \/ SpawnFfmpeg
    \/ DebugWait
    \/ EnterTui
    \/ RunAppEnter
    \/ Draw
    \/ PollNone
    \/ PollFail
    \/ KeyQuit
    \/ KeyCtrlC
    \/ KeyMute
    \/ KeyBookmark
    \/ KeyT
    \/ KeyLang
    \/ KeyOther
    \/ TryWait
    \/ CheckDuration
    \/ TestRunning
    \/ LoopEnd
    \/ UiRestore
    \/ Restore
    \/ EnsureDead
    \/ CleanupCmd
    \/ SaveMarkers
    \/ Report
    \/ ClockTick
    \/ ChildExit
    \/ TailerEof

Spec == Init /\ [][Next]_vars

\* Transcription sessions: the steps left out are never enabled under
\* InitTrans (no mic, no failures, no encoder exit of its own, no stream).
NextTrans ==
    \/ ResolveDevices
    \/ PrepareMicControl
    \/ SpawnFfmpeg
    \/ EnterTui
    \/ RunAppEnter
    \/ Draw
    \/ PollNone
    \/ KeyQuit
    \/ KeyT
    \/ TStoreBase
    \/ TStoreReset
    \/ KeyLang
    \/ TryWait
    \/ CheckDuration
    \/ TestRunning
    \/ LoopEnd
    \/ UiRestore
    \/ Restore
    \/ EnsureDead
    \/ CleanupCmd
    \/ SaveMarkers
    \/ Report
    \/ ClockTick
    \/ TailerEof
    \/ WorkerArm
    \/ WorkerInit
    \/ WorkerRecognize
    \/ WorkerAppend
    \/ WorkerDisable
    \/ WorkerStop

SpecTrans == InitTrans /\ [][NextTrans]_vars

\* The steps of the transcription worker.
WorkerStep ==
    \/ WorkerArm
    \/ WorkerInit
    \/ WorkerRecognize
    \/ WorkerAppend
    \/ WorkerDisable
    \/ WorkerStop

\* Transcription sessions in which the worker thread keeps running as long
\* as the process lives: its reads of audio and the recognizer's processing
\* call return (section 6 of the specification).
SpecTransLive == InitTrans /\ [][NextTrans]_vars /\ WF_vars(WorkerStep)

\* Long diagnostic streams: the steps left out are never enabled under
\* InitLog (no model, no mic, no failures, clock not observed).
NextLog ==
    \/ ResolveDevices
    \/ PrepareMicControl
    \/ SpawnFfmpeg
    \/ EnterTui
    \/ RunAppEnter
    \/ Draw
    \/ PollNone
    \/ KeyQuit
    \/ KeyT
    \/ KeyLang
    \/ TryWait
    \/ CheckDuration
    \/ TestRunning
    \/ LoopEnd
    \/ UiRestore
    \/ Restore
    \/ EnsureDead
    \/ CleanupCmd
    \/ SaveMarkers
    \/ Report
    \/ ChildExit
    \/ TailerRead
    \/ TailerLevel
    \/ TailerEof

SpecLog == InitLog /\ [][NextLog]_vars

\* The steps of the diagnostics tailer.
TailerStep ==
    \/ TailerRead
    \/ TailerLevel
    \/ TailerEof

\* Long diagnostic streams read by a tailer thread that keeps running as
\* long as the process lives; nothing is assumed of the control thread.
SpecLogLive == InitLog /\ [][NextLog]_vars /\ WF_vars(TailerStep)

\* The steps of the control thread from the entry of run_app to the end of
\* run_loop.  None of them blocks: the event poll returns after 50 ms at most
\* (ui.rs 79) and try_wait does not wait (ui.rs 144).
LoopStep ==
    \/ RunAppEnter
    \/ Draw
    \/ PollNone
    \/ KeyMute
    \/ KeyBookmark
    \/ KeyT
    \/ TStoreBase
    \/ TStoreReset
    \/ TryWait
    \/ CheckDuration
    \/ TestRunning
    \/ LoopEnd

\* Sessions that only an exit of the encoder ends; the steps left out are
\* never enabled under InitLive (no quit key, no failures, no stream, clock
\* not observed).
NextLive ==
    \/ ResolveDevices
    \/ PrepareMicControl
    \/ SpawnFfmpeg
    \/ EnterTui
    \/ LoopStep
    \/ UiRestore
    \/ Restore
    \/ EnsureDead
    \/ CleanupCmd
    \/ SaveMarkers
    \/ Report
    \/ ChildExit
    \/ TailerEof
    \/ WorkerArm
    \/ WorkerInit
    \/ WorkerRecognize
    \/ WorkerAppend
    \/ WorkerDisable
    \/ WorkerStop

\* The control thread keeps running while it is in the loop.
SpecLive == InitLive /\ [][NextLive]_vars /\ WF_vars(LoopStep)

\* Sessions observed lock by lock; the steps left out are never enabled
\* under InitLock (no model, no mic, no failures, 'l' and 't' only).
NextLock ==
    \/ ResolveDevices
    \/ PrepareMicControl
    \/ SpawnFfmpeg
    \/ EnterTui
    \/ RunAppEnter
    \/ DrawLockLogs
    \/ DrawUnlockLogs
    \/ PollNone
    \/ NoModelKey
    \/ NoModelLockLogs
    \/ NoModelPushUnlock
    \/ LangKey
    \/ LangLock
    \/ LangLockLogs
    \/ LangPushUnlock
    \/ TryWait
    \/ CheckDuration
    \/ TestRunning
    \/ LoopEnd
    \/ UiRestore
    \/ Restore
    \/ EnsureDead
    \/ CleanupCmd
    \/ SaveMarkers
    \/ Report
    \/ ChildExit
    \/ TailerNextLine
    \/ TailerLockLogs
    \/ TailerPushUnlock
    \/ TailerLockLevel
    \/ TailerStoreUnlock
    \/ TailerEof

SpecLock == InitLock /\ [][NextLock]_vars

\* The control loop going round while the pane is drawn: no key is pressed
\* and the encoder keeps running.
NextPane ==
    \/ Draw
    \/ PollNone
    \/ TryWait
    \/ CheckDuration
    \/ TestRunning

SpecPane == InitPane /\ [][NextPane]_vars

\* ------------------------------------------------------------------ claims
Min(a, b) == IF a <= b THEN a ELSE b

IsNonDecreasing(q) == \A i, j \in DOMAIN q : i <= j => q[i] <= q[j]

Count(q, x) == Cardinality({i \in DOMAIN q : q[i] = x})

\* C1: the transcription stop flag starts false and no step ever takes it
\* from true back to false: it changes at most once, from false to true.
C1_StopMonotonic ==
    (transcription_stop = FALSE)
        /\ [][transcription_stop => transcription_stop']_vars

\* The flag was stored by a quit key and again after the loop.
C1_Witness ==
    transcription_stop /\ Count(steps, "stop") = 2 /\ pc = "exited"

\* C2: the running flag starts true and no step ever takes it from false
\* back to true: it changes at most once, from true to false.
C2_RunningMonotonic ==
    (running = TRUE) /\ [][running' => running]_vars

\* The flag was cleared by a quit key, and the liveness check and the
\* duration check of the same tick found the encoder gone and the time up.
C2_Witness ==
    /\ ~running
    /\ pc = "test"
    /\ Count(steps, "stop") = 1
    /\ status # "none"
    /\ cfg.duration # NoDuration /\ now >= cfg.duration

\* C3 (as claimed): recent_logs never holds more than LogCapacity entries.
C3_LogBounded == Len(recent_logs) <= LogCapacity

\* The last Min(n, LogCapacity) of the lines 1..n the tailer appended.
LastLines(n) ==
    [i \in 1..Min(n, LogCapacity) |-> <<"line", n - Min(n, LogCapacity) + i>>]

\* C4: while only the tailer has written recent_logs, after its N-th append
\* the buffer holds the last Min(N, LogCapacity) lines in arrival order.
C4_LastLines == ui_pushes = 0 => recent_logs = LastLines(nAppended)

\* More lines than the capacity were appended, the oldest evicted.
C4_Witness ==
    ui_pushes = 0 /\ nAppended > LogCapacity /\ Len(recent_logs) = LogCapacity

\* The gains of the first k toggles: 0, 1, 0, ...
Alternating(k) == [i \in 1..k |-> IF i % 2 = 1 THEN 0 ELSE 1]

\* C5: with a mic, k mute toggles make the control loop write exactly k
\* directives, of gains 0, 1, 0, ... from the first toggle on; write_mic_volume
\* appends each one, so that unless a write failed the channel file holds the
\* initial directive of gain 1 followed by those k.
C5_Directives ==
    (HasMic /\ cmd_file # <<>>) =>
        /\ issued = Alternating(n_toggles)
        /\ cmd_file[1] = 1
        /\ Len(cmd_file) <= Len(issued) + 1
        /\ ~io_failed => cmd_file = <<1>> \o issued

\* Three toggles, every write succeeded: mute, unmute, mute.
C5_Witness ==
    ~io_failed /\ n_toggles = 3 /\ cmd_file = <<1, 0, 1, 0>> /\ mic_muted

C7_BaseNonDecreasing ==
    [][ /\ base_offset_ms' >= base_offset_ms
        /\ IsNonDecreasing(enable_bases')
        /\ (base_offset_ms' # base_offset_ms \/ enable_bases' # enable_bases)
             => (transcription_active /\ pc = "t_base")
        /\ (transcription_active /\ ~transcription_active')
             => (pc' = "try_wait" /\ base_offset_ms' = base_offset_ms) ]_vars

\* Two enables with a disable between them, the second at a later time.
C7_Witness ==
    /\ Len(enable_bases) = 2
    /\ enable_bases[2] > enable_bases[1]
    /\ base_offset_ms = enable_bases[2]

\* C8 (as claimed): when the loop ended after try_wait reported an abnormal
\* exit, its result is an error; after a clean exit, it is success.
C8_Original ==
    res # "none" =>
        /\ status = "fail" => res = "err"
        /\ status \in {"ok", "int"} => res = "ok"

\* The session ended because of a failure.
Failed == child = "none" \/ res = "err" \/ status = "fail"

\* C9 (as claimed): the exit status is non-zero, with a printed error, when
\* the session ended because of a failure, and zero after a clean stop.
C9_Original ==
    pc = "exited" =>
        /\ Failed => (exit_code = "nonzero" /\ printed_error)
        /\ exit_code = "zero" => ~Failed

\* The order of the shutdown steps in the code.
Rank(s) ==
    CASE s = "stop"        -> 1
      [] s = "restore"     -> 2
      [] s = "ensure_dead" -> 3
      [] s = "remove"      -> 4
      [] s = "persist"     -> 5
      [] s = "report"      -> 6

\* The order of the shutdown steps in the claim.
ClaimedRank(s) ==
    CASE s = "restore"     -> 1
      [] s = "ensure_dead" -> 2
      [] s = "stop"        -> 3
      [] s = "remove"      -> 5
      [] s = "persist"     -> 6
      [] s = "report"      -> 7

C11_Original == pc = "exited" => child # "running"

\* C12 (as claimed): a session that created the channel file and reached the
\* end of the control loop attempts to remove the file before it exits, also
\* when the control loop returned an error.
C12_Original ==
    (pc = "exited" /\ res # "none" /\ cmd_file # <<>>) =>
        Count(steps, "remove") > 0

\* C13 (as claimed): when the session ends, a marker file has been written
\* if and only if at least one marker was recorded, whichever way the
\* control loop ended.
C13_Original ==
    (pc = "exited" /\ res # "none") => (marker_file # <<>> <=> markers # <<>>)

\* The timestamps of a marker list, in list order.
Timestamps(ms) == [i \in DOMAIN ms |-> ms[i].timestamp]

\* C14: the marker list changes only in a key-event step of the control
\* loop, which appends one marker at the end and leaves the others as they
\* were, in place; the timestamps are always non-decreasing in list order.
C14_MarkersAppendOnly ==
    /\ [](IsNonDecreasing(Timestamps(markers)))
    /\ [][ markers' # markers =>
             /\ pc = "poll" /\ keysLeft' = keysLeft - 1
             /\ Len(markers') = Len(markers) + 1
             /\ SubSeq(markers', 1, Len(markers)) = markers
             /\ markers'[Len(markers')].timestamp = now ]_vars

\* Two bookmarks at different times.
C14_Witness ==
    /\ Len(markers) = 2
    /\ markers[1].timestamp < markers[2].timestamp

\* The duration check observes that the configured duration has elapsed.
TimeUp == cfg.duration # NoDuration /\ now >= cfg.duration

\* C15: a duration check that observes elapsed >= d leaves the running flag
\* false, the test that follows leaves the loop, and the loop returns
\* success; the loop goes round again only while the flag is true, so no
\* later check finds it set; a check that does not observe elapsed >= d, and
\* every check when no duration is configured, leaves the flag as it was.
C15_DurationStop ==
    /\ [](pc \in {"draw", "poll"} => running)
    /\ [][ /\ (pc = "duration" /\ pc' # pc) =>
                /\ pc' = "test"
                /\ TimeUp => ~running'
                /\ ~TimeUp => running' = running
           /\ (pc = "test" /\ pc' # pc) =>
                pc' = IF running THEN "draw" ELSE "loop_end"
           /\ (pc = "loop_end" /\ pc' # pc) =>
                (pc' = "ui_restore" /\ res' = "ok") ]_vars

\* A session stopped by its duration alone: no quit key, the encoder never
\* seen exited, the loop returned success.
C15_Witness ==
    /\ pc = "exited"
    /\ TimeUp
    /\ res = "ok"
    /\ status = "none"
    /\ steps[1] = "stop" /\ Count(steps, "stop") = 1

\* C16: the step that handles a quit key or an interrupt (the only step at
\* the event poll that records a stop) leaves the running flag false and the
\* stop flag true, and leaves the mute state, the markers, the transcription
\* flags, the base offset, the language, the channel file and the log lines
\* as they were.
C16_QuitFrame ==
    [][ (pc = "poll" /\ steps' # steps) =>
          /\ ~running'
          /\ transcription_stop'
          /\ UNCHANGED <<mic_muted, markers, transcription_active,
                         transcription_flag, base_offset_ms,
                         transcription_reset, language, cmd_file,
                         recent_logs>> ]_vars

\* A quit key after a mute toggle and a bookmark: both are kept.
C16_Witness ==
    /\ pc = "try_wait"
    /\ steps = <<"stop">>
    /\ ~running /\ transcription_stop
    /\ mic_muted /\ Len(markers) = 1

\* The step that handles a transcription-toggle key in a session whose keys
\* are toggle, language and quit: the language handler always changes the
\* language and the quit handler always records a stop.
ToggleStep ==
    /\ pc = "poll"
    /\ keysLeft' # keysLeft
    /\ language' = language
    /\ steps' = steps

\* C17: with a model configured, each toggle key flips the shared enabled
\* flag (kept equal to the loop's own copy); a disabling toggle completes at
\* once and leaves the base offset and the reset flag as they were; an
\* enabling toggle then stores the elapsed milliseconds it reads into the
\* base offset and, as the last step of the handler, the reset flag, so that
\* when the handler completes the reset flag is true and the base offset is
\* the elapsed time read by this handler.
C17_Toggle ==
    /\ [](pc \notin {"t_base", "t_reset"} =>
             transcription_flag = transcription_active)
    /\ [](pc = "t_reset" =>
             /\ enable_bases # <<>>
             /\ base_offset_ms = enable_bases[Len(enable_bases)]
             /\ base_offset_ms <= now)
    /\ [][ /\ ToggleStep =>
                /\ transcription_flag' = ~transcription_flag
                /\ base_offset_ms' = base_offset_ms
                /\ transcription_reset' = transcription_reset
                /\ pc' = IF transcription_flag' THEN "t_base" ELSE "try_wait"
           /\ (pc = "t_base" /\ pc' # pc) =>
                /\ pc' = "t_reset"
                /\ base_offset_ms' = now
                /\ transcription_flag'
           /\ (pc = "t_reset" /\ pc' # pc) =>
                /\ pc' = "try_wait"
                /\ transcription_reset'
                /\ base_offset_ms' = base_offset_ms
                /\ transcription_flag' ]_vars

\* An enable at a time after the start, then a disable that left the base
\* offset and the still unconsumed reset flag alone.
C17_Witness ==
    /\ pc = "try_wait"
    /\ ~transcription_flag
    /\ transcription_reset
    /\ Len(enable_bases) = 1
    /\ base_offset_ms = enable_bases[1]
    /\ base_offset_ms > 0

DigitValue(c) == CHOOSE d \in 0..9 : DigitChar(d) = c

RECURSIVE Number(_)
Number(ds) ==
    IF ds = <<>> THEN 0
    ELSE 10 * Number(SubSeq(ds, 1, Len(ds) - 1)) + DigitValue(ds[Len(ds)])

RECURSIVE SplitStamp(_, _, _)
SplitStamp(str, cur, acc) ==
    IF str = <<>> THEN Append(acc, cur)
    ELSE IF Head(str) \in {":", "."}
           THEN SplitStamp(Tail(str), <<>>, Append(acc, cur))
           ELSE SplitStamp(Tail(str), Append(cur, Head(str)), acc)

ParseStamp(str) ==
    LET f == SplitStamp(str, <<>>, <<>>)
    IN  Number(f[1]) * 3600000 + Number(f[2]) * 60000
            + Number(f[3]) * 1000 + Number(f[4])

\* 24 hours, in milliseconds.
DayMs == 24 * 3600000

\* The segments whose time stamps the pane shows, line by line.
Shown == LastSegs(transcript)

\* C20: every time stamp drawn for a start offset below 24 hours has the
\* twelve characters of HH:MM:SS.mmm and reads back as that offset, and two
\* such offsets drawn as the same time stamp are the same offset.
C20_RoundTrip ==
    /\ Len(screen) \in {0, Len(Shown)}
    /\ \A i \in DOMAIN screen :
         Shown[i].start_ms < DayMs =>
            /\ Len(screen[i]) = 12
            /\ ParseStamp(screen[i]) = Shown[i].start_ms
    /\ \A i, j \in DOMAIN screen :
         (Shown[i].start_ms < DayMs /\ Shown[j].start_ms < DayMs
            /\ screen[i] = screen[j]) => Shown[i].start_ms = Shown[j].start_ms

\* The pane shows 00:59:59.999 above 23:59:59.999.
C20_Witness ==
    /\ Len(screen) = 2
    /\ Shown[1].start_ms = 3599999
    /\ screen[1] = <<"0", "0", ":", "5", "9", ":", "5", "9", ".", "9", "9", "9">>
    /\ Shown[2].start_ms = DayMs - 1
    /\ screen[2] = <<"2", "3", ":", "5", "9", ":", "5", "9", ".", "9", "9", "9">>

\* C19 (as claimed): recent_logs changes only in steps of the tailer, each
\* of which appends one line of the stream.
C19_Original ==
    [][recent_logs' # recent_logs => nAppended' = nAppended + 1]_vars

\* C21: a tick of the control loop goes from the render to the event poll,
\* the liveness check, the duration check and the test of the running flag,
\* in this order, leaving the order only to return an error; a key event is
\* handled only at the event poll, one per tick, and only while the running
\* flag is true; the test leaves the loop as soon as the flag is false, so
\* the loop renders and polls only while it is true.
C21_TickOrder ==
    /\ [](pc \in {"draw", "poll"} => running)
    /\ [][ /\ (pc = "draw" /\ pc' # pc) => pc' \in {"poll", "ui_restore"}
           /\ (pc = "poll" /\ pc' # pc) => pc' \in {"try_wait", "ui_restore"}
           /\ (pc = "try_wait" /\ pc' # pc) => pc' \in {"duration", "ui_restore"}
           /\ (pc = "duration" /\ pc' # pc) => pc' = "test"
           /\ (pc = "test" /\ pc' # pc) =>
                pc' = IF running THEN "draw" ELSE "loop_end"
           /\ (pc \in {"draw", "poll", "try_wait"} /\ pc' = "ui_restore") =>
                res' = "err"
           /\ keysLeft' # keysLeft =>
                /\ pc = "poll" /\ pc' = "try_wait"
                /\ keysLeft' = keysLeft - 1
                /\ running ]_vars

\* A quit key in the first tick: the loop ended in that tick and the keys
\* pressed after it were never handled.
C21_Witness ==
    /\ pc = "exited"
    /\ res = "ok"
    /\ keysLeft = MaxKeys - 1
    /\ Count(steps, "stop") = 2

\* C22: the liveness check that finds the encoder exited leaves the running
\* flag false; once it has, the loop neither renders nor polls again; and
\* whenever the encoder has exited while the control loop runs, the control
\* loop terminates.
C22_ExitEndsLoop ==
    /\ [](status # "none" =>
             pc \notin {"draw", "poll", "t_base", "t_reset", "try_wait"})
    /\ [][ (pc = "try_wait" /\ pc' # pc /\ child # "running") =>
             (~running' /\ status' = child /\ pc' = "duration") ]_vars
    /\ ((child \notin {"none", "running"} /\ InSession) ~> ~InSession)

\* The encoder failed while the mic was muted, transcription was active and
\* a marker was set; the loop has ended, with no quit key.
C22_Witness ==
    /\ pc = "loop_end"
    /\ status = "fail"
    /\ ~running
    /\ mic_muted /\ transcription_active /\ Len(markers) = 1

\* C23 (as claimed): the step that handles a language key cycles the tag
\* between "en" and "fr" and changes nothing else of the session state; the
\* worker's language changes only when it (re)initializes after a reset.
C23_Original ==
    [][ /\ (pc = "poll" /\ language' # language) =>
             /\ language' = (IF language = "en" THEN "fr" ELSE "en")
             /\ UNCHANGED <<transcription_reset, transcription_flag,
                            transcription_active, base_offset_ms, w_lang,
                            running, transcription_stop, mic_muted, markers,
                            recent_logs>>
        /\ w_lang' # w_lang => (wpc = "Armed" /\ wpc' = "Listening") ]_vars

C25_Original ==
    [][ /\ linesLeft' # linesLeft =>
             /\ nAppended' = nAppended + 1
             /\ recent_logs'[Len(recent_logs')] = <<"line", nAppended'>>
        /\ (tpc = "level" /\ tpc' = "read") =>
             audio_level' = IF tline.kind \in {"level", "garbled"}
                              THEN tline.level ELSE audio_level ]_vars

C27_Original ==
    /\ [][ (io_failed' /\ ~io_failed) =>
             (running' = running /\ res' = res /\ pc' = "try_wait") ]_vars
    /\ [](io_failed =>
             \E i \in DOMAIN recent_logs : recent_logs[i][1] = "mic_write_failed")

\* C28 (as claimed): with a mic, whenever the control loop is between two
\* event-handling steps, the last directive in the channel file has gain 0
\* if and only if mic_muted is true.
C28_Original ==
    (HasMic /\ cmd_file # <<>>) =>
        (cmd_file[Len(cmd_file)] = 0 <=> mic_muted)

\* The step that handles a transcription-toggle key in a session with a mic
\* whose keys are mute, bookmark and toggle: the mute handler always flips
\* the mute state and the bookmark handler always adds a marker.
ToggleKeyStep ==
    /\ pc = "poll"
    /\ keysLeft' # keysLeft
    /\ mic_muted' = mic_muted
    /\ markers' = markers

\* C29: without a model, a toggle key leaves transcription_active, the
\* shared enabled flag, the base offset and the reset flag as they were (they
\* keep their initial values for the whole session); with a model, the
\* toggle flips transcription_active and the shared flag equals it after the
\* toggle, and in every state.
C29_ToggleFlag ==
    /\ [](transcription_flag = transcription_active)
    /\ [](~cfg.model =>
             /\ ~transcription_active /\ ~transcription_reset
             /\ base_offset_ms = 0)
    /\ [][ ToggleKeyStep =>
             IF cfg.model
               THEN /\ transcription_active' = ~transcription_active
                    /\ transcription_flag' = transcription_active'
               ELSE UNCHANGED <<transcription_active, transcription_flag,
                                base_offset_ms, transcription_reset>> ]_vars

\* Two toggle keys handled without a model: each only left its line in
\* recent_logs.
C29_Witness ==
    /\ ~cfg.model
    /\ pc = "try_wait"
    /\ Len(recent_logs) = 2
    /\ recent_logs[2] = <<"no_model", 0>>
    /\ ~transcription_active /\ ~transcription_flag

\* The mutex a thread is waiting for at its lock(), "none" when it is not at
\* a lock().
CtlWants ==
    CASE pc = "draw"        -> "logs"
      [] pc = "t_want_logs" -> "logs"
      [] pc = "l_want_lang" -> "language"
      [] pc = "l_want_logs" -> "logs"
      [] OTHER              -> "none"

TailerWants ==
    CASE tpc = "want_logs"  -> "logs"
      [] tpc = "want_level" -> "level"
      [] OTHER              -> "none"

CtlBlocked == CtlWants # "none" /\ locks[CtlWants] = "tailer"

TailerBlocked == TailerWants # "none" /\ locks[TailerWants] = "ctl"

Held(t) == {l \in DOMAIN locks : locks[l] = t}

\* C30: the control loop and the tailer are never both waiting for a mutex
\* the other holds.  The tailer holds the mutex of recent_logs only while it
\* pushes and that of audio_level only while it stores, so it holds none
\* while it waits for one; the control loop holds a mutex while it waits for
\* another only in the language toggle, where it holds that of language and
\* waits for that of recent_logs, and the tailer never holds the mutex of
\* language.
C30_NoDeadlock ==
    /\ ~(CtlBlocked /\ TailerBlocked)
    /\ Held("tailer") = (CASE tpc = "push"  -> {"logs"}
                           [] tpc = "store" -> {"level"}
                           [] OTHER         -> {})
    /\ TailerWants # "none" => Held("tailer") = {}
    /\ Held("ctl") = (CASE pc \in {"draw_logs", "t_logs"} -> {"logs"}
                        [] pc = "l_want_logs" -> {"language"}
                        [] pc = "l_logs"      -> {"language", "logs"}
                        [] OTHER              -> {})
    /\ (CtlWants # "none" /\ Held("ctl") # {}) => pc = "l_want_logs"

\* The control loop holds the mutex of language and waits for that of
\* recent_logs, which the tailer holds while it pushes a line.
C30_Witness ==
    /\ pc = "l_want_logs"
    /\ tpc = "push"
    /\ locks = [logs |-> "tailer", level |-> "free", language |-> "ctl"]
    /\ CtlBlocked

====
